---- MODULE Spec2Model ----
(***************************************************************************)
(* Model of the battleships game: the engine (core/game.class.ts) with the  *)
(* board, the ship list, the move counter, the derived game status and the *)
(* mutating operation handleGuess; the text adapter (game-text-adapter.ts) *)
(* with handleInput; and the input loop of main.ts.                        *)
(***************************************************************************)
EXTENDS Integers, Sequences, FiniteSets, TLC

\* ---- bounds of the model ----
MaxWidth == 6
MaxHeight == 2
MaxCells == 6
MaxAdapterCells == 4
MaxMovesArg == 2
MaxShipsArg == 2
MaxGuesses == 3
MaxPlaceCells == 4
MaxPlacedShipsArg == 5

\* ---- thresholds of calculateTileHeatStatus ----
HotDistance == 2
WarmDistance == 4

VARIABLES
    boardState,     \* _boardState: boardState[x][y], 1-based here (0-based in the code)
    shipPositions,  \* _shipPositions: sequence of [x, y], in push order
    movesMade,      \* _movesMade
    maxMoves,       \* _maxMoves
    lastGuess,      \* arguments of the most recent handleGuess call
    lastResult,     \* how the most recent handleGuess call ended
    hitReturned,    \* history: coordinates for which handleGuess has returned HIT
    guessed,        \* history: in-bounds coordinates handleGuess has been called with
    args,           \* the arguments the Game constructor was called with
    pc,             \* "engine": no adapter; "adapter": adapter constructed;
                    \* "loop" / "exited": position of main's while loop;
                    \* "placing" / "placed": position of placeRandomShips;
                    \* "new" / "TypeError": before the adapter's constructor
                    \* runs / after it threw
    lastInput,      \* argument of the most recent handleInput call
    output,         \* messages the most recent adapter operation sent to the callback
    calledEngine,   \* whether the most recent handleInput called handleGuess
    rand,           \* [randX, randY] of the placeRandomShip call in progress
    id,             \* _id
    callback        \* the gameTextCallback argument: "function", "undefined",
                    \* or "none" where no adapter is constructed

engineVars == <<boardState, shipPositions, movesMade, maxMoves, lastGuess, lastResult,
                hitReturned, guessed, args>>
adapterVars == <<pc, lastInput, output, calledEngine>>
vars == <<boardState, shipPositions, movesMade, maxMoves, lastGuess, lastResult,
          hitReturned, guessed, args, pc, lastInput, output, calledEngine,
          rand, id, callback>>

\* ---- helpers ----
\* variant of Min: the clamp is missing
MinIsFirst(a, b) == a

Min(a, b) == IF a <= b THEN a ELSE b
Abs(n) == IF n < 0 THEN -n ELSE n
Range(s) == {s[i] : i \in 1..Len(s)}

\* get boardSize(): x is the number of columns stored, y the length of column 0
boardSize == [x |-> Len(boardState), y |-> Len(boardState[1])]

\* get shipsRemaining()
shipsRemaining == Len(shipPositions)

\* variant of fogged: only SHIP is hidden
foggedLeaksEmpty(b) ==
    [x \in 1..Len(b) |->
        [y \in 1..Len(b[x]) |->
            IF b[x][y] \in {"SHIP"} THEN "FOGGED" ELSE b[x][y]]]

\* variant of fogged: only EMPTY is hidden
foggedLeaksShip(b) ==
    [x \in 1..Len(b) |->
        [y \in 1..Len(b[x]) |->
            IF b[x][y] \in {"EMPTY"} THEN "FOGGED" ELSE b[x][y]]]

\* get foggedBoardState(), as a function of the raw board
fogged(b) ==
    [x \in 1..Len(b) |->
        [y \in 1..Len(b[x]) |->
            IF b[x][y] \in {"EMPTY", "SHIP"} THEN "FOGGED" ELSE b[x][y]]]

foggedBoardState == fogged(boardState)

\* variant of statusOf: VICTORY without the budget test
statusOfDropBudget(nShips, made, max) ==
    IF nShips = 0 THEN "VICTORY"
    ELSE IF made >= max THEN "DEFEAT"
    ELSE "IN_PROGRESS"

\* variant of statusOf: DEFEAT is tested before VICTORY
statusOfDefeatFirst(nShips, made, max) ==
    IF made >= max THEN "DEFEAT"
    ELSE IF nShips = 0 THEN "VICTORY"
    ELSE "IN_PROGRESS"

\* variant of statusOf: DEFEAT only past the budget (> for >=)
statusOfStrictDefeat(nShips, made, max) ==
    IF nShips = 0 /\ made <= max THEN "VICTORY"
    ELSE IF made > max THEN "DEFEAT"
    ELSE "IN_PROGRESS"

\* get gameStatus(), as a function of the counters it reads
statusOf(nShips, made, max) ==
    IF nShips = 0 /\ made <= max THEN "VICTORY"
    ELSE IF made >= max THEN "DEFEAT"
    ELSE "IN_PROGRESS"

gameStatus == statusOf(shipsRemaining, movesMade, maxMoves)

manhattanDistance(p1, p2) == Abs(p1.x - p2.x) + Abs(p1.y - p2.y)

\* findClosestShipFrom: the loop over _shipPositions, keeping the first
\* strictly closer ship. The result is <<p>> for a position p and Null for
\* null (no ship closer than maxDistance).
Null == <<>>

RECURSIVE closestLoop(_, _, _, _, _)
closestLoop(ships, i, p, closestSoFar, shortestSoFar) ==
    IF i > Len(ships) THEN closestSoFar
    ELSE IF manhattanDistance(p, ships[i]) < shortestSoFar
         THEN closestLoop(ships, i + 1, p, <<ships[i]>>, manhattanDistance(p, ships[i]))
         ELSE closestLoop(ships, i + 1, p, closestSoFar, shortestSoFar)

findClosestShipFrom(ships, size, x, y) ==
    closestLoop(ships, 1, [x |-> x, y |-> y], Null, size.x + size.y)

\* variant of heatOf: WARM tested with < for <=
heatOfWarmOffByOne(d) ==
    IF d <= HotDistance THEN "HOT"
    ELSE IF d < WarmDistance THEN "WARM"
    ELSE "COLD"

\* the three-way classification of calculateTileHeatStatus
heatOf(d) ==
    IF d <= HotDistance THEN "HOT"
    ELSE IF d <= WarmDistance THEN "WARM"
    ELSE "COLD"

\* calculateTileHeatStatus; only evaluated when a closest ship exists
calculateTileHeatStatus(ships, size, x, y) ==
    heatOf(manhattanDistance([x |-> x, y |-> y], findClosestShipFrom(ships, size, x, y)[1]))

\* variant of isShip: a destroyed ship still counts as a ship
isShipOrHit(b, x, y) == b[x][y] \in {"SHIP", "HIT"}

isShip(b, x, y) == b[x][y] = "SHIP"

\* variant of setTile: all columns share one array, so row y of every column is written
setTileAliased(b, x, y, t) == [xx \in DOMAIN b |-> [b[xx] EXCEPT ![y] = t]]

\* this._boardState[x - 1][y - 1] = t
setTile(b, x, y, t) == [b EXCEPT ![x][y] = t]

\* the bounds test at the top of handleGuess
inBounds(size, x, y) == (x > 0 /\ x <= size.x) /\ (y > 0 /\ y <= size.y)

\* variant of filterOut: the filtered array is not kept
filterOutNothing(ships, x, y) == ships

\* variant of filterOut: || for && in the filter predicate
filterOutRowOrColumn(ships, x, y) == SelectSeq(ships, LAMBDA p : ~(p.x = x \/ p.y = y))

\* _shipPositions.filter(position => !(position.x === x && position.y === y))
filterOut(ships, x, y) == SelectSeq(ships, LAMBDA p : ~(p.x = x /\ p.y = y))

\* variant of useGuess: the increment is missing
useGuessForgotten(made) == made

\* this._movesMade++
useGuess(made) == made + 1

\* ---- construction ----
\* variant of randomIntValues: Math.floor in the place of Math.round
randomIntValuesFloor(lower, upper) ==
    IF upper = lower THEN {lower} ELSE lower..(upper - 1)

\* every value randomInt(lower, upper) can return:
\* Math.round(r * (upper - lower)) + lower for r in [0, 1)
randomIntValues(lower, upper) == lower..upper

\* every ship list placeRandomShips(n) can leave: n pairwise distinct cells,
\* in the order they were pushed
RECURSIVE placements(_, _, _)
placements(w, h, n) ==
    IF n = 0 THEN {<<>>}
    ELSE {Append(s, [x |-> px, y |-> py]) :
            s \in placements(w, h, n - 1),
            px \in randomIntValues(1, w),
            py \in randomIntValues(1, h)}

distinctPlacements(w, h, n) ==
    {s \in placements(w, h, n) : Cardinality(Range(s)) = n}

boardWith(w, h, ships) ==
    [x \in 1..w |-> [y \in 1..h |->
        IF [x |-> x, y |-> y] \in Range(ships) THEN "SHIP" ELSE "EMPTY"]]

\* the value uuid.v4() returned
uuid == "uuid.v4()"

\* no placeRandomShip call is in progress
NoDraw == [x |-> 0, y |-> 0]

NoResult == [kind |-> "none", tileState |-> "none", gameStatus |-> "none"]

\* new Game(w, h, argMoves, nShips)
NewGame ==
    \E w \in 1..MaxWidth, h \in 1..MaxHeight,
       argMoves \in 0..MaxMovesArg, nShips \in 0..MaxShipsArg :
        /\ w * h <= MaxCells
        /\ \E ships \in distinctPlacements(w, h, Min(nShips, w * h)) :
            /\ movesMade = 0
            /\ maxMoves = Min(argMoves, w * h)
            /\ shipPositions = ships
            /\ boardState = boardWith(w, h, ships)
            /\ lastGuess = [x |-> 0, y |-> 0]
            /\ lastResult = NoResult
            /\ hitReturned = {}
            /\ guessed = {}
            /\ args = [x |-> w, y |-> h, maxMoves |-> argMoves, nShips |-> nShips]
            /\ rand = NoDraw
            /\ id = uuid

\* ---- placeRandomShips(nShips), one step per placeRandomShip call ----

\* the constructor up to the call of placeRandomShips: an empty board
InitPlace ==
    /\ \E w \in 1..MaxWidth, h \in 1..MaxHeight,
          argMoves \in 0..MaxMovesArg, nShips \in 0..MaxPlacedShipsArg :
            /\ w * h <= MaxPlaceCells
            /\ movesMade = 0
            /\ maxMoves = Min(argMoves, w * h)
            /\ shipPositions = <<>>
            /\ boardState = boardWith(w, h, <<>>)
            /\ args = [x |-> w, y |-> h, maxMoves |-> argMoves, nShips |-> nShips]
    /\ lastGuess = [x |-> 0, y |-> 0]
    /\ lastResult = NoResult
    /\ hitReturned = {}
    /\ guessed = {}
    /\ rand = NoDraw
    /\ id = uuid
    /\ pc = "placing"
    /\ lastInput = <<>>
    /\ output = <<>>
    /\ calledEngine = FALSE
    /\ callback = "none"

\* the argument the constructor passes to placeRandomShips
shipsToPlace == Min(args.nShips, args.x * args.y)

\* placeRandomShip draws a cell that is not a ship: it becomes one
PlaceShip ==
    /\ pc = "placing"
    /\ Len(shipPositions) < shipsToPlace
    /\ \E randX \in randomIntValues(1, boardSize.x),
          randY \in randomIntValues(1, boardSize.y) :
            /\ boardState[randX][randY] # "SHIP"
            /\ rand' = [x |-> randX, y |-> randY]
            /\ boardState' = setTile(boardState, randX, randY, "SHIP")
            /\ shipPositions' = Append(shipPositions, [x |-> randX, y |-> randY])
    /\ UNCHANGED <<movesMade, maxMoves, lastGuess, lastResult, hitReturned, guessed,
                   args, pc, lastInput, output, calledEngine, id, callback>>

\* placeRandomShip draws a cell that is a ship already: it calls itself
PlaceShipRetry ==
    /\ pc = "placing"
    /\ Len(shipPositions) < shipsToPlace
    /\ \E randX \in randomIntValues(1, boardSize.x),
          randY \in randomIntValues(1, boardSize.y) :
            /\ boardState[randX][randY] = "SHIP"
            /\ rand' = [x |-> randX, y |-> randY]
    /\ UNCHANGED <<boardState, shipPositions, movesMade, maxMoves, lastGuess, lastResult,
                   hitReturned, guessed, args, pc, lastInput, output, calledEngine,
                   id, callback>>

\* the for loop of placeRandomShips has run nShips times: the constructor returns
PlaceDone ==
    /\ pc = "placing"
    /\ Len(shipPositions) = shipsToPlace
    /\ pc' = "placed"
    /\ rand' = NoDraw
    /\ UNCHANGED <<boardState, shipPositions, movesMade, maxMoves, lastGuess, lastResult,
                   hitReturned, guessed, args, lastInput, output, calledEngine, id, callback>>

NextPlace ==
    \/ PlaceShip
    \/ PlaceShipRetry
    \/ PlaceDone

SpecPlace == InitPlace /\ [][NextPlace]_vars

\* Math.random is fair: a call of placeRandomShip that can draw a free cell
\* does not draw taken cells for ever
SpecPlaceFair ==
    /\ SpecPlace
    /\ WF_vars(PlaceShip)
    /\ WF_vars(PlaceDone)

\* a game used through its own interface, without an adapter
Init ==
    /\ NewGame
    /\ pc = "engine"
    /\ lastInput = <<>>
    /\ output = <<>>
    /\ calledEngine = FALSE
    /\ callback = "none"

\* ---- handleGuess(x, y), one action per path through the method ----

\* variant of GuessOutOfBounds: the move is counted before the bounds test
GuessOutOfBoundsAfterIncrement(x, y) ==
    /\ ~inBounds(boardSize, x, y)
    /\ movesMade' = useGuess(movesMade)
    /\ lastGuess' = [x |-> x, y |-> y]
    /\ lastResult' = [kind |-> "OutOfBoundsError", tileState |-> "none", gameStatus |-> "none"]
    /\ UNCHANGED <<boardState, shipPositions, maxMoves, hitReturned, guessed>>

\* the bounds check fails: the Error is thrown before anything is written
GuessOutOfBounds(x, y) ==
    /\ ~inBounds(boardSize, x, y)
    /\ lastGuess' = [x |-> x, y |-> y]
    /\ lastResult' = [kind |-> "OutOfBoundsError", tileState |-> "none", gameStatus |-> "none"]
    /\ UNCHANGED <<boardState, shipPositions, movesMade, maxMoves, hitReturned, guessed>>

\* variant of GuessShip: the status is read before the ship is removed
GuessShipStatusBefore(x, y) ==
    /\ inBounds(boardSize, x, y)
    /\ isShip(boardState, x, y)
    /\ movesMade' = useGuess(movesMade)
    /\ boardState' = setTile(boardState, x, y, "HIT")
    /\ shipPositions' = filterOut(shipPositions, x, y)
    /\ lastGuess' = [x |-> x, y |-> y]
    /\ lastResult' = [kind |-> "returned", tileState |-> "HIT",
                      gameStatus |-> statusOf(Len(shipPositions), movesMade', maxMoves)]
    /\ hitReturned' = hitReturned \cup {[x |-> x, y |-> y]}
    /\ guessed' = guessed \cup {[x |-> x, y |-> y]}
    /\ UNCHANGED maxMoves

\* the cell holds a ship
GuessShip(x, y) ==
    /\ inBounds(boardSize, x, y)
    /\ isShip(boardState, x, y)
    /\ movesMade' = useGuess(movesMade)
    /\ boardState' = setTile(boardState, x, y, "HIT")
    /\ shipPositions' = filterOut(shipPositions, x, y)
    /\ lastGuess' = [x |-> x, y |-> y]
    /\ lastResult' = [kind |-> "returned", tileState |-> "HIT",
                      gameStatus |-> statusOf(Len(shipPositions'), movesMade', maxMoves)]
    /\ hitReturned' = hitReturned \cup {[x |-> x, y |-> y]}
    /\ guessed' = guessed \cup {[x |-> x, y |-> y]}
    /\ UNCHANGED maxMoves

\* variant of GuessMiss: the closest ship is taken out of the list
GuessMissDropsClosest(x, y) ==
    /\ inBounds(boardSize, x, y)
    /\ ~isShip(boardState, x, y)
    /\ findClosestShipFrom(shipPositions, boardSize, x, y) # Null
    /\ movesMade' = useGuess(movesMade)
    /\ boardState' = setTile(boardState, x, y,
                            calculateTileHeatStatus(shipPositions, boardSize, x, y))
    /\ shipPositions' = filterOut(shipPositions,
                                  findClosestShipFrom(shipPositions, boardSize, x, y)[1].x,
                                  findClosestShipFrom(shipPositions, boardSize, x, y)[1].y)
    /\ lastGuess' = [x |-> x, y |-> y]
    /\ lastResult' = [kind |-> "returned",
                      tileState |-> calculateTileHeatStatus(shipPositions, boardSize, x, y),
                      gameStatus |-> statusOf(Len(shipPositions), movesMade', maxMoves)]
    /\ guessed' = guessed \cup {[x |-> x, y |-> y]}
    /\ UNCHANGED <<maxMoves, hitReturned>>

\* the cell holds no ship and a closest ship is found
GuessMiss(x, y) ==
    /\ inBounds(boardSize, x, y)
    /\ ~isShip(boardState, x, y)
    /\ findClosestShipFrom(shipPositions, boardSize, x, y) # Null
    /\ movesMade' = useGuess(movesMade)
    /\ boardState' = setTile(boardState, x, y,
                            calculateTileHeatStatus(shipPositions, boardSize, x, y))
    /\ lastGuess' = [x |-> x, y |-> y]
    /\ lastResult' = [kind |-> "returned",
                      tileState |-> calculateTileHeatStatus(shipPositions, boardSize, x, y),
                      gameStatus |-> statusOf(Len(shipPositions), movesMade', maxMoves)]
    /\ guessed' = guessed \cup {[x |-> x, y |-> y]}
    /\ UNCHANGED <<shipPositions, maxMoves, hitReturned>>

\* the cell holds no ship and findClosestShipFrom returns null: manhattanDistance
\* reads .x of null and a TypeError leaves handleGuess after _movesMade++
GuessNoClosestShip(x, y) ==
    /\ inBounds(boardSize, x, y)
    /\ ~isShip(boardState, x, y)
    /\ findClosestShipFrom(shipPositions, boardSize, x, y) = Null
    /\ movesMade' = useGuess(movesMade)
    /\ lastGuess' = [x |-> x, y |-> y]
    /\ lastResult' = [kind |-> "TypeError", tileState |-> "none", gameStatus |-> "none"]
    /\ guessed' = guessed \cup {[x |-> x, y |-> y]}
    /\ UNCHANGED <<boardState, shipPositions, maxMoves, hitReturned>>

HandleGuess(x, y) ==
    \/ GuessOutOfBounds(x, y)
    \/ GuessShip(x, y)
    \/ GuessMiss(x, y)
    \/ GuessNoClosestShip(x, y)

\* the guesses tried: every cell of the board, and for each of the four
\* conditions of the bounds test one guess that breaks only that condition
guessArgs(size) ==
    {[x |-> x, y |-> y] : x \in 1..size.x, y \in 1..size.y}
    \cup {[x |-> 0, y |-> 1], [x |-> size.x + 1, y |-> 1],
          [x |-> 1, y |-> 0], [x |-> 1, y |-> size.y + 1]}

Next ==
    /\ movesMade < MaxGuesses
    /\ \E g \in guessArgs(boardSize) : HandleGuess(g.x, g.y)
    /\ UNCHANGED <<args, pc, lastInput, output, calledEngine, rand, id, callback>>

Spec == Init /\ [][Next]_vars

\* ---- text adapter: strings ----
\* a string is a sequence of one-character strings
Digits == {"0", "1", "2", "3", "4", "5", "6", "7", "8", "9"}
Whitespace == {" "}

digitValue(ch) ==
    CASE ch = "0" -> 0 [] ch = "1" -> 1 [] ch = "2" -> 2 [] ch = "3" -> 3
      [] ch = "4" -> 4 [] ch = "5" -> 5 [] ch = "6" -> 6 [] ch = "7" -> 7
      [] ch = "8" -> 8 [] ch = "9" -> 9

digitChar(n) == CHOOSE ch \in Digits : digitValue(ch) = n

\* the decimal text of a coordinate, as a player types it
decimal(n) ==
    IF n < 10 THEN <<digitChar(n)>>
    ELSE <<digitChar(n \div 10), digitChar(n % 10)>>

\* /\s*\d+\s*,\s*\d+\s*/.test(s): the pattern is not anchored, so it matches
\* when some part of s is a digit, spaces, a comma, spaces, a digit
regexTest(s) ==
    \E k \in 1..Len(s) :
        /\ s[k] = ","
        /\ \E i \in 1..(k - 1) :
            s[i] \in Digits /\ \A m \in (i + 1)..(k - 1) : s[m] \in Whitespace
        /\ \E j \in (k + 1)..Len(s) :
            s[j] \in Digits /\ \A m \in (k + 1)..(j - 1) : s[m] \in Whitespace

\* input.split(',')
RECURSIVE split(_)
split(s) ==
    IF \A i \in 1..Len(s) : s[i] # "," THEN <<s>>
    ELSE LET i == CHOOSE c \in 1..Len(s) : s[c] = "," /\ \A b \in 1..(c - 1) : s[b] # ","
         IN <<SubSeq(s, 1, i - 1)>> \o split(SubSeq(s, i + 1, Len(s)))

\* parseInt(val, 10): leading whitespace and one sign are skipped, then the
\* longest run of digits is read; NaN when that run is empty
NaN == [nan |-> TRUE, val |-> 0]

RECURSIVE digitsValue(_, _)
digitsValue(s, acc) ==
    IF s = <<>> \/ Head(s) \notin Digits THEN acc
    ELSE digitsValue(Tail(s), acc * 10 + digitValue(Head(s)))

RECURSIVE skipWhitespace(_)
skipWhitespace(s) ==
    IF s # <<>> /\ Head(s) \in Whitespace THEN skipWhitespace(Tail(s)) ELSE s

parseInt(val) ==
    LET t == skipWhitespace(val)
        negative == t # <<>> /\ Head(t) = "-"
        u == IF t # <<>> /\ Head(t) \in {"-", "+"} THEN Tail(t) ELSE t
    IN IF u = <<>> \/ Head(u) \notin Digits THEN NaN
       ELSE [nan |-> FALSE,
             val |-> IF negative THEN 0 - digitsValue(u, 0) ELSE digitsValue(u, 0)]

\* comparisons with a number that may be NaN are false for NaN
lessThan(n, k) == ~n.nan /\ n.val < k
greaterThan(n, k) == ~n.nan /\ n.val > k

\* variant of parseInput: the repeat-bombing test is missing
parseInputNoRepeatCheck(input, size, fog) ==
    IF ~regexTest(input) THEN [kind |-> "SyntaxError", x |-> 0, y |-> 0]
    ELSE LET x == parseInt(split(input)[1])
             y == parseInt(split(input)[2])
         IN IF lessThan(x, 1) \/ greaterThan(x, size.x)
               \/ lessThan(y, 1) \/ greaterThan(y, size.y)
            THEN [kind |-> "BoundsError", x |-> 0, y |-> 0]
            ELSE IF x.nan THEN [kind |-> "TypeError", x |-> 0, y |-> 0]
            ELSE IF y.nan THEN [kind |-> "AlreadyBombedError", x |-> 0, y |-> 0]
            ELSE [kind |-> "ok", x |-> x.val, y |-> y.val]

\* variant of parseInput: the upper bounds are tested with >= for >
parseInputUpperBoundOff(input, size, fog) ==
    IF ~regexTest(input) THEN [kind |-> "SyntaxError", x |-> 0, y |-> 0]
    ELSE LET x == parseInt(split(input)[1])
             y == parseInt(split(input)[2])
         IN IF lessThan(x, 1) \/ greaterThan(x, size.x - 1)
               \/ lessThan(y, 1) \/ greaterThan(y, size.y - 1)
            THEN [kind |-> "BoundsError", x |-> 0, y |-> 0]
            ELSE IF x.nan THEN [kind |-> "TypeError", x |-> 0, y |-> 0]
            ELSE IF y.nan \/ fog[x.val][y.val] # "FOGGED"
                 THEN [kind |-> "AlreadyBombedError", x |-> 0, y |-> 0]
            ELSE [kind |-> "ok", x |-> x.val, y |-> y.val]

\* parseInput: the error it throws, or the guess it returns.
\*  - the regex test fails: the syntax Error;
\*  - a coordinate is below 1 or above the board size: the bounds Error
\*    (a NaN coordinate passes, every comparison with NaN being false);
\*  - x is NaN: foggedBoardState[NaN] is undefined and indexing it throws a
\*    TypeError;
\*  - y is NaN (the cell read is undefined) or the cell is not FOGGED: the
\*    already-bombed Error.
parseInput(input, size, fog) ==
    IF ~regexTest(input) THEN [kind |-> "SyntaxError", x |-> 0, y |-> 0]
    ELSE LET x == parseInt(split(input)[1])
             y == parseInt(split(input)[2])
         IN IF lessThan(x, 1) \/ greaterThan(x, size.x)
               \/ lessThan(y, 1) \/ greaterThan(y, size.y)
            THEN [kind |-> "BoundsError", x |-> 0, y |-> 0]
            ELSE IF x.nan THEN [kind |-> "TypeError", x |-> 0, y |-> 0]
            ELSE IF y.nan \/ fog[x.val][y.val] # "FOGGED"
                 THEN [kind |-> "AlreadyBombedError", x |-> 0, y |-> 0]
            ELSE [kind |-> "ok", x |-> x.val, y |-> y.val]

\* ---- text adapter: output ----
\* a callback message: its kind and the values interpolated into its text
message(type, data) == [type |-> type, data |-> data]

\* an axis label of prettyBoardState: the number, followed by a space below 9
axisLabel(n) == [number |-> n, space |-> n < 9]

\* prettyBoardState reads boardState[x][y] for x and y below
\* boardState[0].length; it throws a TypeError when a column x is missing
prettyThrows(b) == Len(b[1]) > Len(b)

\* prettyBoardState(b) when it returns: the header labels, then per row y its
\* label and the cells boardState[x][y], x and y below boardState[0].length
prettyBoardState(b) ==
    [header |-> [x \in 1..Len(b[1]) |-> axisLabel(x)],
     rows |-> [y \in 1..Len(b[1]) |->
                [label |-> axisLabel(y),
                 cells |-> [x \in 1..Len(b[1]) |-> b[x][y]]]]]

\* the guessResult table of handleInput
guessResultText(tileState) ==
    CASE tileState = "HIT" -> "hit!"
      [] tileState = "HOT" -> "miss, but hot!"
      [] tileState = "WARM" -> "miss, but warm!"
      [] tileState = "COLD" -> "miss, cold. try again"

\* what the constructor sends to the callback
constructorOutput(nShips, max, fog) ==
    <<message("banner", <<nShips, max>>),
      message("currentBoard", <<prettyBoardState(fog)>>),
      message("prompt", <<>>)>>

\* what handleInput sends after handleGuess(x, y) returned result; a
\* TypeError of prettyBoardState ends the method where it is thrown
guessOutput(x, y, result, nShips, max, made, fog) ==
    <<message("result", <<x, y, guessResultText(result.tileState)>>),
      message("shipsRemain", <<nShips>>),
      message("bombsRemain", <<max - made>>)>>
    \o (IF result.gameStatus = "VICTORY"
        THEN (IF prettyThrows(fog) THEN <<>>
              ELSE <<message("finalBoard", <<prettyBoardState(fog)>>),
                     message("victory", <<>>)>>)
        ELSE IF result.gameStatus = "DEFEAT"
        THEN <<message("defeat", <<>>)>>
        ELSE (IF prettyThrows(fog) THEN <<>>
              ELSE <<message("currentBoard", <<prettyBoardState(fog)>>),
                     message("prompt", <<>>)>>))

\* variant of isGameEnd: only a victory ends the game
isGameEndOnlyVictory == gameStatus = "VICTORY"

\* get isGameEnd()
isGameEnd == gameStatus # "IN_PROGRESS"

\* new GameTextAdapter(new Game(...), callback); the constructor renders the
\* board, so an adapter exists only for a game whose board it can render
NewAdapter ==
    /\ NewGame
    /\ boardSize.x * boardSize.y <= MaxAdapterCells
    /\ ~prettyThrows(boardState)
    /\ lastInput = <<>>
    /\ output = constructorOutput(shipsRemaining, maxMoves, foggedBoardState)
    /\ calledEngine = FALSE
    /\ callback = "function"

InitAdapter ==
    /\ NewAdapter
    /\ pc = "adapter"

\* ---- handleInput(input) ----

\* variant of InputRejected: the move is counted although the input is refused
InputRejectedCountsMove(input) ==
    \E thrown \in {parseInput(input, boardSize, foggedBoardState)} :
        /\ thrown.kind # "ok"
        /\ lastInput' = input
        /\ output' = <<message(thrown.kind, <<>>)>>
        /\ calledEngine' = FALSE
        /\ movesMade' = useGuess(movesMade)
        /\ UNCHANGED <<boardState, shipPositions, maxMoves, lastGuess,
                       lastResult, hitReturned, guessed>>

\* parseInput throws: the message goes to the callback and the method returns
InputRejected(input) ==
    \E thrown \in {parseInput(input, boardSize, foggedBoardState)} :
        /\ thrown.kind # "ok"
        /\ lastInput' = input
        /\ output' = <<message(thrown.kind, <<>>)>>
        /\ calledEngine' = FALSE
        /\ UNCHANGED <<boardState, shipPositions, movesMade, maxMoves, lastGuess,
                       lastResult, hitReturned, guessed>>

\* parseInput returns a guess: handleGuess is called with it; when it returns
\* the result is narrated, when it throws nothing is sent
InputForwarded(input) ==
    \E guess \in {parseInput(input, boardSize, foggedBoardState)} :
        /\ guess.kind = "ok"
        /\ lastInput' = input
        /\ calledEngine' = TRUE
        /\ HandleGuess(guess.x, guess.y)
        /\ output' = IF lastResult'.kind = "returned"
                     THEN guessOutput(guess.x, guess.y, lastResult', Len(shipPositions'),
                                      maxMoves', movesMade', fogged(boardState'))
                     ELSE <<>>

HandleInput(input) ==
    \/ InputRejected(input)
    \/ InputForwarded(input)

\* ---- the inputs tried ----
coordinateText(g) == decimal(g.x) \o <<",">> \o decimal(g.y)

\* inputs that are not a plain "x,y": the strings of the syntax tests, and
\* strings whose first or second field does not start with a number
oddInputs ==
    {<<>>,
     <<"1">>,
     <<"1", ",", "1", ",", "1">>,
     <<"a", "a", "a", "1", ",", "1">>,
     <<"1", ",", "1", "a", "a", "a">>,
     <<"-", "1", ",", "-", "1">>,
     <<"I", "n", "f", "i", "n", "i", "t", "y", ",", "I", "n", "f", "i", "n", "i", "t", "y">>,
     <<"0", ".", "1", ",", "0", ".", "1">>,
     <<"0", ",", "0">>,
     <<" ", "1", " ", ",", " ", "1", " ">>,
     <<"1", ",", "a", "1", ",", "1">>}

inputsFor(size) == {coordinateText(g) : g \in guessArgs(size)} \cup oddInputs

NextAdapter ==
    /\ movesMade < MaxGuesses
    /\ \E input \in inputsFor(boardSize) : HandleInput(input)
    /\ UNCHANGED <<args, pc, rand, id, callback>>

SpecAdapter == InitAdapter /\ [][NextAdapter]_vars

\* ---- new GameTextAdapter(game, gameTextCallback) ----

\* a game and the callback argument, before the adapter's constructor runs
InitConstruct ==
    /\ NewGame
    /\ boardSize.x * boardSize.y <= MaxAdapterCells
    /\ pc = "new"
    /\ callback \in {"function", "undefined"}
    /\ lastInput = <<>>
    /\ output = <<>>
    /\ calledEngine = FALSE

\* no callback was passed: the first gameTextCallback(...) calls undefined
\* and the TypeError leaves the constructor
ConstructNoCallback ==
    /\ pc = "new"
    /\ callback = "undefined"
    /\ pc' = "TypeError"
    /\ UNCHANGED <<boardState, shipPositions, movesMade, maxMoves, lastGuess, lastResult,
                   hitReturned, guessed, args, lastInput, output, calledEngine,
                   rand, id, callback>>

\* the banner is sent, then prettyBoardState throws while the second
\* message is built
ConstructBoardThrows ==
    /\ pc = "new"
    /\ callback = "function"
    /\ prettyThrows(foggedBoardState)
    /\ pc' = "TypeError"
    /\ output' = <<message("banner", <<shipsRemaining, maxMoves>>)>>
    /\ UNCHANGED <<boardState, shipPositions, movesMade, maxMoves, lastGuess, lastResult,
                   hitReturned, guessed, args, lastInput, calledEngine, rand, id, callback>>

\* the constructor sends banner, board and prompt and returns
Construct ==
    /\ pc = "new"
    /\ callback = "function"
    /\ ~prettyThrows(foggedBoardState)
    /\ pc' = "adapter"
    /\ output' = constructorOutput(shipsRemaining, maxMoves, foggedBoardState)
    /\ UNCHANGED <<boardState, shipPositions, movesMade, maxMoves, lastGuess, lastResult,
                   hitReturned, guessed, args, lastInput, calledEngine, rand, id, callback>>

\* handleInput on the adapter that was constructed
ConstructedInput ==
    /\ pc = "adapter"
    /\ NextAdapter

NextConstruct ==
    \/ ConstructNoCallback
    \/ ConstructBoardThrows
    \/ Construct
    \/ ConstructedInput

SpecConstruct == InitConstruct /\ [][NextConstruct]_vars

\* ---- main(): while (!gameTextAdapter.isGameEnd) handleInput(await getInput()) ----
InitMain ==
    /\ NewAdapter
    /\ pc = "loop"

\* one turn of the loop with an input that parseInput refuses
MainRejectedTurn ==
    /\ pc = "loop"
    /\ ~isGameEnd
    /\ \E input \in inputsFor(boardSize) : InputRejected(input)
    /\ UNCHANGED <<args, pc, rand, id, callback>>

\* variant of MainAcceptedTurn: the input is handled without testing isGameEnd
MainAcceptedTurnUnguarded ==
    /\ pc = "loop"
    /\ \E input \in inputsFor(boardSize) : InputForwarded(input)
    /\ UNCHANGED <<args, pc, rand, id, callback>>

\* one turn of the loop with an input that is forwarded to handleGuess
MainAcceptedTurn ==
    /\ pc = "loop"
    /\ ~isGameEnd
    /\ \E input \in inputsFor(boardSize) : InputForwarded(input)
    /\ UNCHANGED <<args, pc, rand, id, callback>>

\* the loop condition is false: main returns
MainExit ==
    /\ pc = "loop"
    /\ isGameEnd
    /\ pc' = "exited"
    /\ UNCHANGED <<boardState, shipPositions, movesMade, maxMoves, lastGuess, lastResult,
                   hitReturned, guessed, args, lastInput, output, calledEngine,
                   rand, id, callback>>

NextMain ==
    \/ MainRejectedTurn
    \/ MainAcceptedTurn
    \/ MainExit

SpecMain == InitMain /\ [][NextMain]_vars

\* the player keeps entering inputs the adapter accepts for as long as the
\* loop asks for one: weak fairness of MainAcceptedTurn, written out with the
\* loop condition in the place of ENABLED <<MainAcceptedTurn>>_vars
PlayerKeepsPlaying ==
    \/ []<>(~(pc = "loop" /\ ~isGameEnd))
    \/ []<><<MainAcceptedTurn>>_vars

\* the loop itself always proceeds, and the player keeps playing
SpecMainFair ==
    /\ SpecMain
    /\ WF_vars(MainExit)
    /\ PlayerKeepsPlaying

\* ---- vocabulary of the properties ----
Cells == {[x |-> x, y |-> y] : x \in 1..boardSize.x, y \in 1..boardSize.y}

\* the value of a cell in the fogged view
Visible(c) == foggedBoardState[c.x][c.y]
VisibleNext(c) == fogged(boardState')[c.x][c.y]

Revealed == {c \in Cells : Visible(c) # "FOGGED"}

\* the cells that hold a ship on the raw board
ShipCells == {c \in Cells : boardState[c.x][c.y] = "SHIP"}

\* a step that is a call handleGuess(c.x, c.y) for the cell c
GuessedNow(c) == lastGuess' = c /\ vars' # vars

\* C1 (as stated): in every reachable state gameStatus is VICTORY if and
\* only if shipsRemaining is 0.
C1_VictoryIffNoShips ==
    (gameStatus = "VICTORY") <=> (shipsRemaining = 0)

\* C1 (amended): in every reachable state gameStatus is VICTORY if and only
\* if shipsRemaining is 0 and movesMade <= maxMoves.
C1_VictoryIffNoShipsWithinBudget ==
    (gameStatus = "VICTORY") <=> (shipsRemaining = 0 /\ movesMade <= maxMoves)

\* the last ship was hit within the budget
C1_Witness ==
    /\ lastResult.tileState = "HIT"
    /\ shipsRemaining = 0
    /\ movesMade <= maxMoves
    /\ gameStatus = "VICTORY"

\* C2 (as stated): gameStatus is DEFEAT iff shipsRemaining > 0 and
\* movesMade >= maxMoves, and IN_PROGRESS iff shipsRemaining > 0 and
\* movesMade < maxMoves; Game(1,2,0,1) is DEFEAT right after construction.
C2_DefeatIffShipsAndNoMoves ==
    /\ (gameStatus = "DEFEAT") <=> (shipsRemaining > 0 /\ movesMade >= maxMoves)
    /\ (gameStatus = "IN_PROGRESS") <=> (shipsRemaining > 0 /\ movesMade < maxMoves)
    /\ (lastResult = NoResult /\ maxMoves = 0 /\ shipsRemaining = 1)
            => gameStatus = "DEFEAT"

\* C2 (amended): gameStatus is DEFEAT iff movesMade >= maxMoves and either
\* shipsRemaining > 0 or movesMade > maxMoves, and IN_PROGRESS iff
\* shipsRemaining > 0 and movesMade < maxMoves; Game(1,2,0,1) is DEFEAT right
\* after construction.
C2_DefeatIffBudgetSpent ==
    /\ (gameStatus = "DEFEAT") <=>
            (movesMade >= maxMoves /\ (shipsRemaining > 0 \/ movesMade > maxMoves))
    /\ (gameStatus = "IN_PROGRESS") <=> (shipsRemaining > 0 /\ movesMade < maxMoves)
    /\ (lastResult = NoResult /\ maxMoves = 0 /\ shipsRemaining = 1)
            => gameStatus = "DEFEAT"

\* Game(1,2,0,1) right after construction
C2_Witness ==
    /\ lastResult = NoResult
    /\ boardSize = [x |-> 1, y |-> 2]
    /\ maxMoves = 0
    /\ movesMade = 0
    /\ shipsRemaining = 1
    /\ gameStatus = "DEFEAT"

\* C3: every in-bounds handleGuess, on a ship, on an unrevealed empty cell or
\* on a revealed cell, leaves movesMade exactly one higher.
C3_InBoundsGuessCostsOneMove ==
    [][\A c \in Cells : GuessedNow(c) => movesMade' = movesMade + 1]_vars

\* two moves were spent on one cell: the second guess hit a revealed cell
C3_Witness ==
    /\ movesMade = 2
    /\ lastResult.kind = "returned"
    /\ Cardinality(Revealed) = 1

\* C4 (as stated): once a cell is revealed, no later handleGuess call changes
\* its visible value.
C4_RevealedNeverChanges ==
    [][\A c \in Revealed : VisibleNext(c) = Visible(c)]_vars

\* C4 (amended): once a cell is revealed it stays revealed, and a handleGuess
\* call on any other coordinate leaves its visible value as it was; only a
\* repeated guess on the cell itself can change the value.
C4_RevealedChangesOnlyByOwnGuess ==
    [][\A c \in Revealed :
            /\ VisibleNext(c) # "FOGGED"
            /\ VisibleNext(c) # Visible(c) => lastGuess' = c]_vars

\* a cell was revealed and a later guess revealed another one
C4_Witness ==
    /\ Cardinality(Revealed) >= 2
    /\ lastResult.kind = "returned"

\* C5: once gameStatus is VICTORY or DEFEAT it keeps that value over every
\* further handleGuess call.
C5_EndedStatusIsTerminal ==
    [][(gameStatus \in {"VICTORY", "DEFEAT"}) => (gameStatus' = gameStatus)]_vars

\* C6: an in-bounds handleGuess always completes and returns a tile state,
\* also on a cell without a ship when no ship remains.
C6_InBoundsGuessReturns ==
    (lastResult # NoResult /\ lastGuess \in Cells) =>
        /\ lastResult.kind = "returned"
        /\ lastResult.tileState \in {"HIT", "HOT", "WARM", "COLD"}

\* C7: a handleGuess on a cell that holds a ship returns HIT, lowers
\* shipsRemaining by exactly 1 and removes exactly that position from the
\* ship set.
C7_HitRemovesThatShip ==
    [][\A c \in Cells :
        (GuessedNow(c) /\ boardState[c.x][c.y] = "SHIP") =>
            /\ lastResult'.kind = "returned"
            /\ lastResult'.tileState = "HIT"
            /\ Len(shipPositions') = Len(shipPositions) - 1
            /\ Range(shipPositions') = Range(shipPositions) \ {c}
            /\ c \in Range(shipPositions)]_vars

\* a ship was hit while another ship of the same row was still afloat
C7_Witness ==
    /\ lastResult.tileState = "HIT"
    /\ \E p \in Range(shipPositions) : p.y = lastGuess.y

\* C8: a coordinate returns HIT at most once, and only when the cell held a
\* ship.
C8_HitAtMostOncePerCell ==
    [][\A c \in Cells :
        (GuessedNow(c) /\ lastResult'.tileState = "HIT") =>
            /\ c \notin hitReturned
            /\ boardState[c.x][c.y] = "SHIP"]_vars

\* a cell that had returned HIT was guessed again and the call returned
C8_Witness ==
    /\ lastGuess \in hitReturned
    /\ lastResult.kind = "returned"
    /\ lastResult.tileState # "HIT"

\* Manhattan distance from c to the nearest cell in the non-empty set S
Distance(c, p) ==
    (IF c.x >= p.x THEN c.x - p.x ELSE p.x - c.x)
        + (IF c.y >= p.y THEN c.y - p.y ELSE p.y - c.y)

NearestDistance(c, S) ==
    CHOOSE d \in 0..(boardSize.x + boardSize.y) :
        /\ \E p \in S : Distance(c, p) = d
        /\ \A p \in S : Distance(c, p) >= d

\* C9: a guess on a cell without a ship, while a ship remains, returns HOT
\* iff the nearest remaining ship is at distance 1..2, WARM iff at 3..4 and
\* COLD iff at 5 or more; destroyed ships do not count.
C9_HeatByNearestRemainingShip ==
    [][\A c \in Cells :
        (GuessedNow(c) /\ c \notin ShipCells /\ ShipCells # {}) =>
            LET d == NearestDistance(c, ShipCells) IN
            /\ lastResult'.kind = "returned"
            /\ d >= 1
            /\ (lastResult'.tileState = "HOT") <=> (1 <= d /\ d <= 2)
            /\ (lastResult'.tileState = "WARM") <=> (3 <= d /\ d <= 4)
            /\ (lastResult'.tileState = "COLD") <=> (d >= 5)]_vars

\* a guess returned COLD although a destroyed ship lies within distance 4
C9_Witness ==
    /\ lastGuess \in Cells
    /\ lastResult.tileState = "COLD"
    /\ \E c \in Cells : boardState[c.x][c.y] = "HIT" /\ Distance(lastGuess, c) <= 4

\* C10: a handleGuess outside the board fails with the out-of-bounds error
\* and leaves movesMade, the board, the ship set and gameStatus unchanged.
C10_OutOfBoundsGuessChangesNothing ==
    [][(lastGuess' \notin Cells /\ vars' # vars) =>
            /\ lastResult'.kind = "OutOfBoundsError"
            /\ movesMade' = movesMade
            /\ boardState' = boardState
            /\ shipPositions' = shipPositions
            /\ maxMoves' = maxMoves
            /\ (gameStatus' = gameStatus)]_vars

\* an out-of-bounds guess was made in the middle of a game
C10_Witness ==
    /\ lastResult.kind = "OutOfBoundsError"
    /\ lastGuess \notin Cells
    /\ movesMade > 0
    /\ Revealed # {}

\* C11: right after Game(width, height, maxMoves, shipCount) the game has
\* shipsRemaining = min(shipCount, width * height), maxMoves =
\* min(maxMoves, width * height) and movesMade = 0.
C11_ConstructionClamps ==
    LET area == args.x * args.y IN
    /\ maxMoves = (IF args.maxMoves <= area THEN args.maxMoves ELSE area)
    /\ boardSize = [x |-> args.x, y |-> args.y]
    /\ lastResult = NoResult =>
        /\ shipsRemaining = (IF args.nShips <= area THEN args.nShips ELSE area)
        /\ movesMade = 0

\* a new game whose two requests both exceeded the board area
C11_Witness ==
    /\ lastResult = NoResult
    /\ args.nShips > args.x * args.y
    /\ args.maxMoves > args.x * args.y
    /\ shipsRemaining = args.x * args.y

\* C12: every cell of foggedBoardState is FOGGED, HIT, HOT, WARM or COLD, and
\* it is FOGGED exactly when the raw cell is EMPTY or SHIP.
C12_FoggedViewHidesRawStates ==
    \A c \in Cells :
        /\ Visible(c) \in {"FOGGED", "HIT", "HOT", "WARM", "COLD"}
        /\ (Visible(c) = "FOGGED") <=> (boardState[c.x][c.y] \in {"EMPTY", "SHIP"})

\* a board that holds a hit, a heat tier, a hidden ship and a hidden empty cell
C12_Witness ==
    /\ \E c \in Cells : boardState[c.x][c.y] = "HIT"
    /\ \E c \in Cells : boardState[c.x][c.y] \in {"HOT", "WARM", "COLD"}
    /\ \E c \in Cells : boardState[c.x][c.y] = "SHIP"
    /\ \E c \in Cells : boardState[c.x][c.y] = "EMPTY"

\* C13: the fogged view right after construction is all FOGGED whatever the
\* ship placement (it depends on width and height only), and after any
\* guesses every cell not yet guessed is FOGGED, ship or not.
C13_FoggedViewIndependentOfShips ==
    /\ lastResult = NoResult =>
            foggedBoardState = [x \in 1..args.x |-> [y \in 1..args.y |-> "FOGGED"]]
    /\ \A c \in Cells \ guessed : Visible(c) = "FOGGED"

\* after a guess, a ship and an empty cell are both still unguessed
C13_Witness ==
    /\ guessed # {}
    /\ \E c \in Cells \ guessed : boardState[c.x][c.y] = "SHIP"
    /\ \E c \in Cells \ guessed : boardState[c.x][c.y] = "EMPTY"

\* C14: a position is in the ship set iff its board cell is SHIP, the set has
\* no duplicates, and shipsRemaining is the number of SHIP cells.
C14_ShipSetMatchesBoard ==
    /\ Range(shipPositions) = ShipCells
    /\ Cardinality(Range(shipPositions)) = Len(shipPositions)
    /\ shipsRemaining = Cardinality(ShipCells)

\* one ship was hit and another one is still on the board
C14_Witness ==
    /\ hitReturned # {}
    /\ lastResult.tileState = "HIT"
    /\ ShipCells # {}

\* C15: a guess that hits the last ship and brings movesMade to exactly
\* maxMoves returns HIT with gameStatus VICTORY.
C15_LastHitOnLastMoveIsVictory ==
    (lastResult.tileState = "HIT" /\ shipsRemaining = 0 /\ movesMade = maxMoves) =>
        /\ lastResult.gameStatus = "VICTORY"
        /\ gameStatus = "VICTORY"

\* Game(1,1,1,1) after handleGuess(1,1)
C15_Witness ==
    /\ args = [x |-> 1, y |-> 1, maxMoves |-> 1, nShips |-> 1]
    /\ lastGuess = [x |-> 1, y |-> 1]
    /\ lastResult = [kind |-> "returned", tileState |-> "HIT", gameStatus |-> "VICTORY"]
    /\ movesMade = 1

\* ---- vocabulary of the adapter properties ----
ErrorTypes == {"SyntaxError", "BoundsError", "AlreadyBombedError", "TypeError"}

\* the most recent handleInput refused its input
Refused(out) == Len(out) >= 1 /\ out[1].type \in ErrorTypes

\* s is spaces, digits, spaces and nothing else
NumberField(s) ==
    \E a \in 1..Len(s), b \in 1..Len(s) :
        /\ a <= b
        /\ \A m \in 1..Len(s) :
            IF a <= m /\ m <= b THEN s[m] \in Digits ELSE s[m] = " "

\* the whole of s is: spaces, digits, spaces, a comma, spaces, digits, spaces
MatchesWholeInput(s) ==
    \E k \in 1..Len(s) :
        /\ s[k] = ","
        /\ NumberField(SubSeq(s, 1, k - 1))
        /\ NumberField(SubSeq(s, k + 1, Len(s)))

\* C16: when handleInput rejects an input it sends one explanation to the
\* callback, does not call handleGuess and leaves movesMade, shipsRemaining,
\* the fogged board and gameStatus as they were; an input beyond the right
\* edge ("9,9" on the 8x8 board) is rejected with the bounds error.
C16_RejectedInputChangesNothing ==
    [][/\ (vars' # vars /\ Refused(output')) =>
            /\ Len(output') = 1
            /\ calledEngine' = FALSE
            /\ movesMade' = movesMade
            /\ Len(shipPositions') = Len(shipPositions)
            /\ fogged(boardState') = foggedBoardState
            /\ (gameStatus' = gameStatus)
            /\ lastGuess' = lastGuess /\ lastResult' = lastResult
       /\ (vars' # vars
            /\ lastInput' = coordinateText([x |-> boardSize.x + 1, y |-> 1])) =>
            output' = <<message("BoundsError", <<>>)>>]_vars

\* in the middle of a game an input was rejected for its bounds
C16_Witness ==
    /\ output = <<message("BoundsError", <<>>)>>
    /\ calledEngine = FALSE
    /\ movesMade > 0

\* C17: an input naming a revealed in-bounds cell, revealed in the previous
\* turn or earlier, gets the already-bombed error and costs no move; an input
\* naming a FOGGED in-bounds cell passes and reaches handleGuess.
C17_RepeatBombingRefused ==
    [][\A c \in Cells :
        (vars' # vars /\ lastInput' = coordinateText(c)) =>
            IF Visible(c) # "FOGGED"
            THEN /\ output' = <<message("AlreadyBombedError", <<>>)>>
                 /\ calledEngine' = FALSE
                 /\ movesMade' = movesMade
            ELSE /\ calledEngine' = TRUE
                 /\ lastGuess' = c
                 /\ ~Refused(output')]_vars

\* a cell revealed before the previous turn was entered again
C17_Witness ==
    /\ output = <<message("AlreadyBombedError", <<>>)>>
    /\ Cardinality(Revealed) >= 2
    /\ \E c \in Revealed : lastInput = coordinateText(c) /\ c # lastGuess

\* C18: the syntax check accepts an input only if the whole string is spaces,
\* digits, spaces, a comma, spaces, digits, spaces; every other input gets
\* the syntax error and no guess is made.
C18_SyntaxCheckMatchesWholeInput ==
    (output = <<>> \/ output[1].type # "banner") =>
        /\ (output = <<message("SyntaxError", <<>>)>>) <=> ~MatchesWholeInput(lastInput)
        /\ ~MatchesWholeInput(lastInput) => calledEngine = FALSE

\* C19: handleInput calls handleGuess only with coordinates on the board, so
\* the engine's out-of-bounds error never occurs; coordinates 0 and width + 1
\* or height + 1 get the bounds error, and the edge values 1, width and
\* height do not.
C19_AdapterKeepsGuessesInBounds ==
    [][/\ (vars' # vars /\ calledEngine') =>
            /\ lastGuess' \in Cells
            /\ lastResult'.kind # "OutOfBoundsError"
       /\ \A g \in guessArgs(boardSize) :
            (vars' # vars /\ lastInput' = coordinateText(g)) =>
                ((output' = <<message("BoundsError", <<>>)>>) <=> g \notin Cells)]_vars

\* a guess on the far corner of the board went through
C19_Witness ==
    /\ calledEngine = TRUE
    /\ lastInput = coordinateText(lastGuess)
    /\ lastGuess = [x |-> boardSize.x, y |-> boardSize.y]
    /\ boardSize.x > 1 /\ boardSize.y > 1
    /\ lastResult.kind = "returned"

\* C20: main's loop leaves only when all ships are hit or the budget is used
\* up, never takes more than maxMoves accepted guesses, is not ended by a
\* rejected input, and does leave when the player keeps entering accepted
\* inputs.
C20_LoopEndsWithTheGame ==
    /\ [](pc = "exited" => (shipsRemaining = 0 \/ movesMade >= maxMoves))
    /\ [](pc = "loop" /\ shipsRemaining > 0 /\ movesMade < maxMoves => ~ENABLED MainExit)
    /\ [](movesMade <= maxMoves /\ Cardinality(guessed) = movesMade)
    /\ []((ENABLED <<MainAcceptedTurn>>_vars) <=> (pc = "loop" /\ ~isGameEnd))
    /\ [][(vars' # vars /\ Refused(output') /\ output' # output) =>
            ((gameStatus' = gameStatus) /\ pc' = pc)]_vars
    /\ <>(pc = "exited")

\* the loop was left after the last bomb, with a ship still afloat
C20_Witness ==
    /\ pc = "exited"
    /\ movesMade = maxMoves
    /\ movesMade > 0
    /\ shipsRemaining > 0
    /\ Cardinality(guessed) = movesMade

\* C24: placeRandomShips leaves min(nShips, width * height) ships on pairwise
\* distinct cells of the board, every cell of the board can be drawn, and
\* under fair random choice the placement ends for every count, the full
\* board included.
C24_PlacementDistinctAndEnds ==
    /\ [](/\ Cardinality(Range(shipPositions)) = Len(shipPositions)
          /\ Range(shipPositions) \subseteq Cells
          /\ boardState = boardWith(boardSize.x, boardSize.y, shipPositions))
    /\ [](pc = "placed" =>
            /\ Len(shipPositions) = Min(args.nShips, args.x * args.y)
            /\ shipPositions \in distinctPlacements(args.x, args.y, shipsToPlace))
    /\ [](\A c \in Cells : /\ c.x \in randomIntValues(1, boardSize.x)
                           /\ c.y \in randomIntValues(1, boardSize.y))
    /\ [](pc = "placing" /\ Len(shipPositions) < shipsToPlace => ENABLED PlaceShip)
    /\ <>(pc = "placed")

\* a board of several cells was filled completely
C24_Witness ==
    /\ pc = "placed"
    /\ Len(shipPositions) = boardSize.x * boardSize.y
    /\ Len(shipPositions) >= 3
    /\ args.nShips >= Len(shipPositions)

\* what follows the three count lines for the status the game has after the guess
ClosingLines(status, fog) ==
    CASE status = "VICTORY" ->
            <<message("finalBoard", <<prettyBoardState(fog)>>), message("victory", <<>>)>>
      [] status = "DEFEAT" -> <<message("defeat", <<>>)>>
      [] OTHER ->
            <<message("currentBoard", <<prettyBoardState(fog)>>), message("prompt", <<>>)>>

\* C21: for each accepted guess the adapter emits the result line, the
\* ships-remaining line, the bombs-remaining line (maxMoves - movesMade after
\* the guess) and then the final board and the victory line, or the defeat
\* line, or the current board and the prompt; no prompt follows a guess that
\* ended the game.
C21_AcceptedGuessOutputOrder ==
    [][(calledEngine' /\ movesMade' = movesMade + 1) =>
        /\ lastResult'.kind = "returned"
        /\ Len(output') >= 3
        /\ output'[1] = message("result", <<lastGuess'.x, lastGuess'.y,
                                            guessResultText(lastResult'.tileState)>>)
        /\ output'[2] = message("shipsRemain", <<Len(shipPositions')>>)
        /\ output'[3] = message("bombsRemain", <<maxMoves' - movesMade'>>)
        /\ SubSeq(output', 4, Len(output')) = ClosingLines(gameStatus', fogged(boardState'))
        /\ (gameStatus' # "IN_PROGRESS" =>
                \A i \in 1..Len(output') : output'[i].type # "prompt")]_vars

\* p shows the whole of board b: the column labels 1..w, then h rows
\* labelled 1..h, row r holding b[c][r] for each column c
RendersWholeBoard(p, b) ==
    /\ DOMAIN p.header = 1..Len(b)
    /\ \A c \in DOMAIN p.header : p.header[c].number = c
    /\ DOMAIN p.rows = 1..Len(b[1])
    /\ \A r \in DOMAIN p.rows :
        /\ p.rows[r].label.number = r
        /\ DOMAIN p.rows[r].cells = 1..Len(b)
        /\ \A c \in DOMAIN p.rows[r].cells : p.rows[r].cells[c] = b[c][r]

\* C22: for a board of any width and height the constructor's rendering
\* succeeds, and every board the adapter sends has the column labels 1..w and
\* h rows labelled 1..h that show every cell of the fogged view once.
C22_RenderingShowsWholeBoard ==
    [][/\ (pc = "new" /\ callback = "function" /\ pc' # "new") => pc' = "adapter"
       /\ output' # output =>
            \A i \in 1..Len(output') :
                output'[i].type \in {"currentBoard", "finalBoard"} =>
                    RendersWholeBoard(output'[i].data[1], fogged(boardState'))]_vars

\* C23: the adapter's constructor returns when no callback is passed, and
\* with a callback it sends banner, board and prompt before it returns.
C23_ConstructionWithoutCallback ==
    [][(pc = "new" /\ pc' # "new") =>
        IF callback = "undefined"
        THEN pc' = "adapter"
        ELSE ~prettyThrows(foggedBoardState) =>
                /\ pc' = "adapter"
                /\ [i \in 1..Len(output') |-> output'[i].type]
                     = <<"banner", "currentBoard", "prompt">>]_vars

\* C25: under main's loop movesMade never exceeds maxMoves and never
\* decreases, and it becomes equal to maxMoves only by the guess that ends
\* the game.
C25_BudgetReachedOnlyByEndingGuess ==
    /\ [](movesMade <= maxMoves)
    /\ [][movesMade' >= movesMade]_vars
    /\ [][(movesMade' = maxMoves' /\ movesMade # maxMoves) =>
            /\ calledEngine'
            /\ movesMade' = movesMade + 1
            /\ gameStatus = "IN_PROGRESS"
            /\ gameStatus' # "IN_PROGRESS"
            /\ lastResult'.gameStatus = gameStatus']_vars
    /\ [][movesMade = maxMoves => movesMade' = movesMade]_vars

\* the last bomb of a budget of two sank the last ship
C25_Witness ==
    /\ pc = "loop"
    /\ movesMade = maxMoves
    /\ maxMoves = 2
    /\ shipsRemaining = 0
    /\ lastResult.tileState = "HIT"

\* C26: when every guess goes through the adapter the number of cells of the
\* fogged view that are not FOGGED equals movesMade, and while the game is
\* IN_PROGRESS some cell of the board is FOGGED and its coordinates are an
\* input the adapter accepts.
C26_RevealedCellsCountMoves ==
    /\ Cardinality(Revealed) = movesMade
    /\ gameStatus = "IN_PROGRESS" =>
        \E c \in Cells :
            /\ Visible(c) = "FOGGED"
            /\ parseInput(coordinateText(c), boardSize, foggedBoardState).kind = "ok"

\* C27: a handleGuess(x, y) that returns changes only cell (x, y) of the
\* board, movesMade and, on a hit, the ship position (x, y); a miss leaves
\* the ship list as it was.
C27_GuessChangesOnlyItsCell ==
    [][(vars' # vars /\ lastResult'.kind = "returned") =>
        /\ \A c \in Cells \ {lastGuess'} : boardState'[c.x][c.y] = boardState[c.x][c.y]
        /\ movesMade' = movesMade + 1
        /\ maxMoves' = maxMoves
        /\ boardSize' = boardSize
        /\ id' = id
        /\ IF lastResult'.tileState = "HIT"
           THEN /\ Range(shipPositions') = Range(shipPositions) \ {lastGuess'}
                /\ Len(shipPositions') = Len(shipPositions) - 1
           ELSE /\ shipPositions' = shipPositions
                /\ shipsRemaining' = shipsRemaining]_vars

\* a miss was returned on a board that still has two ships and a revealed cell
C27_Witness ==
    /\ lastResult.kind = "returned"
    /\ lastResult.tileState \in {"HOT", "WARM", "COLD"}
    /\ shipsRemaining = 2
    /\ Cardinality(Revealed) >= 2

\* C28: the result of a handleGuess(x, y) that returns holds one of HIT,
\* HOT, WARM, COLD, equal to cell (x, y) of the fogged view after the call,
\* and the gameStatus the accessor gives after the call.
C28_ResultDescribesStateAfter ==
    [][(vars' # vars /\ lastResult'.kind = "returned") =>
        /\ lastResult'.tileState \in {"HIT", "HOT", "WARM", "COLD"}
        /\ lastResult'.tileState = VisibleNext(lastGuess')
        /\ lastResult'.gameStatus = gameStatus']_vars

\* the returned result of a hit already reports the victory
C28_Witness ==
    /\ lastResult.kind = "returned"
    /\ lastResult.tileState = "HIT"
    /\ lastResult.gameStatus = "VICTORY"
    /\ gameStatus = "VICTORY"
    /\ movesMade >= 2

====
